---------------------------- MODULE Spec2Model ----------------------------
(***************************************************************************)
(* Entropy based binning (entropy_based_binning/_main.py).                 *)
(*                                                                         *)
(* Two public sequence operations are modelled, each stepwise:             *)
(*   bin_sequence(a, nbins)                 exhaustive search              *)
(*   bin_sequence_approximately(a, nbins)   recursive median split         *)
(*                                                                         *)
(* An input sequence a is a tuple whose entries are integers or NaN (the   *)
(* missing value marker of a float ndarray).  The arrays of the code are   *)
(* tuples, boolean masks are tuples of BOOLEAN.                            *)
(*                                                                         *)
(* Floating point scores.  _get_h returns a float h.  With N the number of *)
(* non-missing samples and c_j the occupancy of bin j,                     *)
(*      h = log2(N) - (1/N) * SUM c_j*log2(c_j),                           *)
(* so for fixed N, h is a strictly decreasing function of the integer      *)
(*      key = PRODUCT c_j^c_j            ( = 2^(N*(log2(N) - h)) ).        *)
(* A score is therefore represented by the record                          *)
(*      [nan  |-> the float is NaN (some bin below the highest occupied    *)
(*                one is empty: 0 * log2(0) = 0 * -inf = NaN, which        *)
(*                np.ma.filled leaves alone in a plain ndarray),           *)
(*       zero |-> the float is (-)0.0 (a single occupied bin, or nothing), *)
(*       key  |-> PRODUCT c_j^c_j, 0 when zero]                            *)
(* and compared with FloatGT, which follows IEEE: every comparison with    *)
(* NaN is false.  Rounding in the last place of the float sum is not       *)
(* represented.                                                            *)
(***************************************************************************)
EXTENDS Integers, Sequences, FiniteSets, TLC

\* ---------------------------------------------------------------- bounds
MaxLen == 4
MaxVal == 3
MaxNbins == 4

\* np.nan, the missing value marker: a value outside the modelled integers
NaN == -1
\* no array was returned
NoResult == <<>>
\* the local best_binning was never bound
Unassigned == <<>>
\* no exception was raised
NoError == "none"

IsNaN(x) == x = NaN

Values == 0..MaxVal

\* the scenario of the specification, a = [0,0,0,0,1,1,2,2,2,2]
Scenario == <<0, 0, 0, 0, 1, 1, 2, 2, 2, 2>>

\* five distinct values: a half of the median split holds three of them
Ramp == <<0, 1, 2, 3, 4>>

Inputs == (UNION {[1..n -> Values \cup {NaN}] : n \in 1..MaxLen}) \cup {Ramp}

\* 8 adds a third level of recursion to bin_sequence_approximately
NbinsSet == (1..MaxNbins) \cup {8}

\* the calls made: every bounded input with every nbins, and the scenario
Calls == (Inputs \X NbinsSet) \cup {<<Scenario, 2>>}

\* ------------------------------------------------------------- utilities
RECURSIVE Pow(_, _)
Pow(b, e) == IF e = 0 THEN 1 ELSE b * Pow(b, e - 1)

\* the entries of s at the positions where mask holds, in order (s[mask])
RECURSIVE Select(_, _)
Select(s, mask) ==
    IF s = <<>> THEN <<>>
    ELSE (IF Head(mask) THEN <<Head(s)>> ELSE <<>>) \o Select(Tail(s), Tail(mask))

\* np.sum of a boolean mask
CountTrue(mask) == Cardinality({i \in DOMAIN mask : mask[i]})

\* the non-missing entries of a
Present(a) == {a[i] : i \in {j \in DOMAIN a : ~IsNaN(a[j])}}

SetMin(S) == CHOOSE x \in S : \A y \in S : x <= y
SetMax(S) == CHOOSE x \in S : \A y \in S : x >= y

\* range(lo, hi + 1) as a tuple
RangeTuple(lo, hi) == [k \in 1..(hi - lo + 1) |-> lo + k - 1]

\* --------------------------------------------------------- _generate_bins
\* itertools.combinations(range(lo, hi + 1), r): the r-tuples of strictly
\* increasing members of lo..hi, in lexicographic order
RECURSIVE combinations(_, _, _)
combinations(lo, hi, r) ==
    IF r = 0 THEN << <<>> >>
    ELSE IF hi - lo + 1 < r THEN <<>>
    ELSE LET with == combinations(lo + 1, hi, r - 1)
             without == combinations(lo + 1, hi, r)
         IN  [k \in 1..Len(with) |-> <<lo>> \o with[k]] \o without

\* base[lo:hi] with Python's 0-based, half-open indices
Slice(base, lo, hi) == SubSeq(base, lo + 1, hi)

\* one yielded candidate: [base[lo:hi] for lo, hi in zip((0,)+ixs, ixs+(nbase,))]
BinsOfCuts(base, ixs) ==
    LET los == <<0>> \o ixs
        his == ixs \o <<Len(base)>>
    IN  [k \in 1..Len(los) |-> Slice(base, los[k], his[k])]

\* mutant: the cut positions are drawn from range(1, nbase + 1)
generate_bins_cut_past_end(seq, nbins) ==
    LET nbase == Len(seq)
        cuts == combinations(1, nbase, nbins - 1)
    IN  [k \in 1..Len(cuts) |-> BinsOfCuts(seq, cuts[k])]

\* everything the generator yields, in the order it yields it
_generate_bins(seq, nbins) ==
    LET nbase == Len(seq)
        cuts == combinations(1, nbase - 1, nbins - 1)
    IN  [k \in 1..Len(cuts) |-> BinsOfCuts(seq, cuts[k])]

\* ---------------------------------------------------------- _apply_binning
TupleSet(t) == {t[k] : k \in DOMAIN t}

\* mutant: b starts as zeros (np.zeros_like(a)) instead of NaN
apply_binning_zero_filled(a, binning) ==
    [i \in DOMAIN a |->
        LET hits == {ii \in DOMAIN binning :
                        ~IsNaN(a[i]) /\ a[i] \in TupleSet(binning[ii])}
        IN  IF hits = {} THEN 0 ELSE SetMax(hits) - 1]

\* b starts as NaN everywhere; b[a == some_number] = ii for every bin ii
\* (0-based) and every number of it, in order: the last write wins
_apply_binning(a, binning) ==
    [i \in DOMAIN a |->
        LET hits == {ii \in DOMAIN binning :
                        ~IsNaN(a[i]) /\ a[i] \in TupleSet(binning[ii])}
        IN  IF hits = {} THEN NaN ELSE SetMax(hits) - 1]

\* ------------------------------------------------------------------ _get_h
\* np.bincount(b[~np.isnan(b)].astype(np.int)): occupancy of 0..max(b)
bincount(b) ==
    LET present == Present(b)
    IN  IF present = {} THEN <<>>
        ELSE [k \in 1..(SetMax(present) + 1) |->
                Cardinality({i \in DOMAIN b : b[i] = k - 1})]

RECURSIVE KeyOf(_)
KeyOf(counts) ==
    IF counts = <<>> THEN 1
    ELSE Pow(Head(counts), Head(counts)) * KeyOf(Tail(counts))

_get_h(b) ==
    LET counts == bincount(b)
        isnan == \E k \in DOMAIN counts : counts[k] = 0
        iszero == ~isnan /\ Len(counts) <= 1
    IN  [nan |-> isnan, zero |-> iszero,
         key |-> IF isnan \/ iszero THEN 0 ELSE KeyOf(counts)]

_evaluate_binning(a, binning) == _get_h(_apply_binning(a, binning))

\* best_h = 0.
ZeroScore == [nan |-> FALSE, zero |-> TRUE, key |-> 0]

\* mutant: h1 < h2
FloatLT(h1, h2) ==
    /\ ~h1.nan
    /\ ~h2.nan
    /\ ~h1.zero
    /\ (h2.zero \/ h1.key > h2.key)

\* mutant: h1 >= h2
FloatGE(h1, h2) ==
    /\ ~h1.nan
    /\ ~h2.nan
    /\ (h2.zero \/ (~h1.zero /\ h1.key <= h2.key))

\* h1 > h2 on floats
FloatGT(h1, h2) ==
    /\ ~h1.nan
    /\ ~h2.nan
    /\ ~h1.zero
    /\ (h2.zero \/ h1.key < h2.key)

\* ------------------------------------- bin_sequence_approximately, helpers
\* _isinteger(np.log2(nbins)) for an integer nbins >= 1
RECURSIVE IsPowerOfTwo(_)
IsPowerOfTwo(n) ==
    IF n = 1 THEN TRUE
    ELSE IF n < 1 \/ n % 2 # 0 THEN FALSE
    ELSE IsPowerOfTwo(n \div 2)

\* the k-th smallest entry of a (1-based), a without missing entries
KthSmallest(a, k) ==
    CHOOSE v \in TupleSet(a) :
        /\ Cardinality({i \in DOMAIN a : a[i] < v}) < k
        /\ Cardinality({i \in DOMAIN a : a[i] <= v}) >= k

\* np.median(a), as the record [nan, twice]: twice is 2 * median, an integer,
\* because the median of an even number of integers may end in .5;
\* the median of an array holding a NaN is NaN
median(a) ==
    LET n == Len(a)
    IN  IF \E i \in DOMAIN a : IsNaN(a[i])
        THEN [nan |-> TRUE, twice |-> 0]
        ELSE IF n % 2 = 1
        THEN [nan |-> FALSE, twice |-> 2 * KthSmallest(a, (n + 1) \div 2)]
        ELSE [nan |-> FALSE,
              twice |-> KthSmallest(a, n \div 2) + KthSmallest(a, n \div 2 + 1)]

\* a < pivot, a > pivot, a == pivot, elementwise; false where a NaN is involved
LessThan(a, pivot) ==
    [i \in DOMAIN a |-> ~pivot.nan /\ ~IsNaN(a[i]) /\ 2 * a[i] < pivot.twice]
GreaterThan(a, pivot) ==
    [i \in DOMAIN a |-> ~pivot.nan /\ ~IsNaN(a[i]) /\ 2 * a[i] > pivot.twice]
EqualTo(a, pivot) ==
    [i \in DOMAIN a |-> ~pivot.nan /\ ~IsNaN(a[i]) /\ 2 * a[i] = pivot.twice]

MaskOr(m1, m2) == [i \in DOMAIN m1 |-> m1[i] \/ m2[i]]

\* lines 160-166: the two masks of one call
SplitMasks(arr) ==
    LET pivot == median(arr)
        is_smaller == LessThan(arr, pivot)
        is_larger == GreaterThan(arr, pivot)
    IN  IF CountTrue(is_smaller) < CountTrue(is_larger)
        THEN [is_smaller |-> MaskOr(is_smaller, EqualTo(arr, pivot)),
              is_larger |-> is_larger]
        ELSE [is_smaller |-> is_smaller,
              is_larger |-> MaskOr(is_larger, EqualTo(arr, pivot))]

\* np.zeros(n, dtype=np.int)
Zeros(n) == [k \in 1..n |-> 0]

\* the frame of a call that passed its assertions and computed its masks
NewFrame(arr, n) ==
    LET m == SplitMasks(arr)
    IN  [a |-> arr, nbins |-> n,
         is_smaller |-> m.is_smaller, is_larger |-> m.is_larger,
         smaller |-> <<>>, larger |-> <<>>, phase |-> "smaller"]

\* the position of entry i among the entries the mask selects (1-based)
RankIn(mask, i) == Cardinality({j \in 1..i : mask[j]})

\* lines 180-182: b = zeros_like(a); b[is_smaller] = smaller;
\* b[is_larger] = larger + np.max(smaller) + 1
JoinHalves(f) ==
    LET top == SetMax(TupleSet(f.smaller))
    IN  [i \in DOMAIN f.a |->
            IF f.is_larger[i] THEN f.larger[RankIn(f.is_larger, i)] + top + 1
            ELSE IF f.is_smaller[i] THEN f.smaller[RankIn(f.is_smaller, i)]
            ELSE 0]

\* the exception a failed parameter check raises: the checks of the code are
\* assert statements
IsParameterError(e) == e = "AssertionError"

\* --------------------------------------------------------------- the state
VARIABLES
    fn,            \* the public operation that was called
    a,             \* its argument a
    nbins,         \* its argument nbins
    pc,            \* "start", "loop", "run", "done", "error"
    bins,          \* bin_sequence: the candidates of the generator, in order
    next_bin,      \* bin_sequence: how many candidates the loop has consumed
    best_h,        \* bin_sequence: local best_h
    best_binning,  \* bin_sequence: local best_binning, or Unassigned
    stack,         \* bin_sequence_approximately: the call stack
    result,        \* the returned array, or NoResult
    err            \* the exception that ended the call, or NoError

vars == <<fn, a, nbins, pc, bins, next_bin, best_h, best_binning, stack, result, err>>

Init ==
    /\ fn \in {"bin_sequence", "bin_sequence_approximately"}
    /\ \E call \in Calls : a = call[1] /\ nbins = call[2]
    /\ pc = "start"
    /\ bins = <<>>
    /\ next_bin = 0
    /\ best_h = ZeroScore
    /\ best_binning = Unassigned
    /\ stack = <<>>
    /\ result = NoResult
    /\ err = NoError

\* ------------------------------------------------------------ bin_sequence
\* lines 35-38: the integer assertion holds of every modelled input;
\* np.int(np.nanmin(a)) raises ValueError when every entry is missing
BinSequenceStart ==
    /\ fn = "bin_sequence"
    /\ pc = "start"
    /\ IF Present(a) = {}
       THEN /\ pc' = "error"
            /\ err' = "ValueError"
            /\ UNCHANGED <<bins, best_h>>
       ELSE LET amin == SetMin(Present(a))
                amax == SetMax(Present(a))
            IN  /\ bins' = _generate_bins(RangeTuple(amin, amax), nbins)
                /\ best_h' = ZeroScore
                /\ pc' = "loop"
                /\ err' = err
    /\ UNCHANGED <<fn, a, nbins, next_bin, best_binning, stack, result>>

\* lines 40-44: one pass of the for loop
BinSequenceIterate ==
    /\ fn = "bin_sequence"
    /\ pc = "loop"
    /\ next_bin < Len(bins)
    /\ LET binning == bins[next_bin + 1]
           h == _evaluate_binning(a, binning)
       IN  IF FloatGT(h, best_h)
           THEN /\ best_h' = h
                /\ best_binning' = binning
           ELSE UNCHANGED <<best_h, best_binning>>
    /\ next_bin' = next_bin + 1
    /\ UNCHANGED <<fn, a, nbins, pc, bins, stack, result, err>>

\* line 46: return _apply_binning(a, best_binning)
BinSequenceReturn ==
    /\ fn = "bin_sequence"
    /\ pc = "loop"
    /\ next_bin = Len(bins)
    /\ IF best_binning = Unassigned
       THEN /\ pc' = "error"
            /\ err' = "UnboundLocalError"
            /\ result' = result
       ELSE /\ pc' = "done"
            /\ result' = _apply_binning(a, best_binning)
            /\ err' = err
    /\ UNCHANGED <<fn, a, nbins, bins, next_bin, best_h, best_binning, stack>>

\* ---------------------------------------------- bin_sequence_approximately
Top == stack[Len(stack)]

SetTop(f) == [stack EXCEPT ![Len(stack)] = f]

\* a call from outside, lines 151-166
ApproxCall ==
    /\ fn = "bin_sequence_approximately"
    /\ pc = "start"
    /\ IF IsPowerOfTwo(nbins)
       THEN /\ stack' = <<NewFrame(a, nbins)>>
            /\ pc' = "run"
            /\ err' = err
       ELSE /\ pc' = "error"
            /\ err' = "AssertionError"
            /\ stack' = stack
    /\ UNCHANGED <<fn, a, nbins, bins, next_bin, best_h, best_binning, result>>

\* mutant: the recursive call is handed nbins instead of nbins / 2
RecurseWithFullBudget(arr, n, waiting) ==
    /\ stack' = Append(SetTop([Top EXCEPT !.phase = waiting]), NewFrame(arr, 2 * n))
    /\ UNCHANGED <<pc, err>>

\* a recursive call: its assertions (lines 151-154) and its masks
Recurse(arr, n, waiting) ==
    IF IsPowerOfTwo(n)
    THEN /\ stack' = Append(SetTop([Top EXCEPT !.phase = waiting]), NewFrame(arr, n))
         /\ UNCHANGED <<pc, err>>
    ELSE /\ pc' = "error"
         /\ err' = "AssertionError"
         /\ stack' = <<>>

\* lines 169-170
ApproxRecurseSmaller ==
    /\ pc = "run"
    /\ Top.phase = "smaller"
    /\ CountTrue(Top.is_smaller) > 1 /\ Top.nbins \div 2 > 1
    /\ Recurse(Select(Top.a, Top.is_smaller), Top.nbins \div 2, "wait_smaller")
    /\ UNCHANGED <<fn, a, nbins, bins, next_bin, best_h, best_binning, result>>

\* lines 171-172
ApproxBaseSmaller ==
    /\ pc = "run"
    /\ Top.phase = "smaller"
    /\ ~(CountTrue(Top.is_smaller) > 1 /\ Top.nbins \div 2 > 1)
    /\ stack' = SetTop([Top EXCEPT !.smaller = Zeros(CountTrue(Top.is_smaller)),
                                   !.phase = "larger"])
    /\ UNCHANGED <<fn, a, nbins, pc, bins, next_bin, best_h, best_binning, result, err>>

\* lines 174-175
ApproxRecurseLarger ==
    /\ pc = "run"
    /\ Top.phase = "larger"
    /\ CountTrue(Top.is_larger) > 1 /\ Top.nbins \div 2 > 1
    /\ Recurse(Select(Top.a, Top.is_larger), Top.nbins \div 2, "wait_larger")
    /\ UNCHANGED <<fn, a, nbins, bins, next_bin, best_h, best_binning, result>>

\* lines 176-177
ApproxBaseLarger ==
    /\ pc = "run"
    /\ Top.phase = "larger"
    /\ ~(CountTrue(Top.is_larger) > 1 /\ Top.nbins \div 2 > 1)
    /\ stack' = SetTop([Top EXCEPT !.larger = Zeros(CountTrue(Top.is_larger)),
                                   !.phase = "join"])
    /\ UNCHANGED <<fn, a, nbins, pc, bins, next_bin, best_h, best_binning, result, err>>

\* lines 180-184: join the halves and return to the caller; np.max of an empty
\* array raises ValueError, which no caller catches
ApproxJoin ==
    /\ pc = "run"
    /\ Top.phase = "join"
    /\ IF Top.smaller = <<>>
       THEN /\ pc' = "error"
            /\ err' = "ValueError"
            /\ stack' = <<>>
            /\ result' = result
       ELSE LET b == JoinHalves(Top)
                depth == Len(stack)
            IN  IF depth = 1
                THEN /\ result' = b
                     /\ pc' = "done"
                     /\ stack' = <<>>
                     /\ err' = err
                ELSE LET caller == stack[depth - 1]
                         back == IF caller.phase = "wait_smaller"
                                 THEN [caller EXCEPT !.smaller = b, !.phase = "larger"]
                                 ELSE [caller EXCEPT !.larger = b, !.phase = "join"]
                     IN  /\ stack' = [SubSeq(stack, 1, depth - 1) EXCEPT ![depth - 1] = back]
                         /\ UNCHANGED <<pc, result, err>>
    /\ UNCHANGED <<fn, a, nbins, bins, next_bin, best_h, best_binning>>

Next ==
    \/ BinSequenceStart
    \/ BinSequenceIterate
    \/ BinSequenceReturn
    \/ ApproxCall
    \/ ApproxRecurseSmaller
    \/ ApproxBaseSmaller
    \/ ApproxRecurseLarger
    \/ ApproxBaseLarger
    \/ ApproxJoin

Spec == Init /\ [][Next]_vars

\* ===================================================== the claims, checked
\* ------------------------------------------------- vocabulary of the claims
Exact == fn = "bin_sequence"
Approx == fn = "bin_sequence_approximately"
Returned == pc = "done"
Ended == pc \in {"done", "error"}
NoMissing == \A i \in DOMAIN a : ~IsNaN(a[i])

\* the value range [min(a), max(a)] and its size M
AMin == SetMin(Present(a))
AMax == SetMax(Present(a))
RangeSize == AMax - AMin + 1

\* the labels a labeling uses
Labels(b) == Present(b)

\* 2^(-N * H(b)) * N^N for a labeling b of N present entries: the product of
\* c^c over the occupied labels (an empty bin contributes 0 * log2(0) = 0 to
\* the entropy, a factor 1 here).  For labelings of the same data,
\* H(b1) >= H(b2)  iff  EntropyKey(b1) <= EntropyKey(b2).
RECURSIVE KeyOver(_, _)
KeyOver(b, labels) ==
    IF labels = {} THEN 1
    ELSE LET l == CHOOSE x \in labels : TRUE
             c == Cardinality({i \in DOMAIN b : b[i] = l})
         IN  Pow(c, c) * KeyOver(b, labels \ {l})

EntropyKey(b) == KeyOver(b, Labels(b))

\* a partition of the value range into n non-empty contiguous groups is a
\* choice of n - 1 of the M - 1 internal gaps; gap c lies between the c-th and
\* the (c+1)-th value of the range
CutSets(m, n) == {S \in SUBSET (1..(m - 1)) : Cardinality(S) = n - 1}

\* the labeling of the data induced by the partition with cut set S
LabelByCuts(arr, lo, S) ==
    [i \in DOMAIN arr |->
        IF IsNaN(arr[i]) THEN NaN
        ELSE Cardinality({c \in S : c <= arr[i] - lo})]

\* lexicographic order of the increasing tuples of two cut sets of one size
LexLess(S1, S2) ==
    /\ S1 # S2
    /\ SetMin((S1 \ S2) \cup (S2 \ S1)) \in S1

\* Pascal's rule
RECURSIVE Binomial(_, _)
Binomial(n, k) ==
    IF k < 0 \/ k > n THEN 0
    ELSE IF k = 0 \/ k = n THEN 1
    ELSE Binomial(n - 1, k - 1) + Binomial(n - 1, k)

RECURSIVE Flatten(_)
Flatten(groups) ==
    IF groups = <<>> THEN <<>> ELSE Head(groups) \o Flatten(Tail(groups))

\* 2, 4, 8, ...
PowerOfTwoFrom2(n) == n >= 2 /\ IsPowerOfTwo(n)

RECURSIVE Log2(_)
Log2(n) == IF n <= 1 THEN 0 ELSE 1 + Log2(n \div 2)

\* C1: when bin_sequence returns for an input without missing values, the
\* entropy of the returned labeling is at least the entropy of the labeling
\* induced by every partition of the value range into nbins non-empty
\* contiguous groups.
C1_GlobalOptimality ==
    (Exact /\ Returned /\ NoMissing) =>
        \A S \in CutSets(RangeSize, nbins) :
            EntropyKey(result) <= EntropyKey(LabelByCuts(a, AMin, S))

\* C1 witness: a result was returned for nbins >= 2 and some other partition of
\* the range scores strictly below it.
C1_Witness ==
    /\ Exact /\ Returned /\ NoMissing /\ nbins >= 2
    /\ \E S \in CutSets(RangeSize, nbins) :
            EntropyKey(result) < EntropyKey(LabelByCuts(a, AMin, S))

\* C2: every result bin_sequence returns has the length of the input, holds the missing
\* marker exactly where the input is missing and a bin index of 0..nbins-1
\* elsewhere, and equal input values carry equal bin indices.
C2_LabelsWellFormed ==
    (Exact /\ Returned) =>
        /\ Len(result) = Len(a)
        /\ \A i \in DOMAIN a :
            /\ IsNaN(result[i]) <=> IsNaN(a[i])
            /\ ~IsNaN(a[i]) => result[i] \in 0..(nbins - 1)
        /\ \A i, j \in DOMAIN a : a[i] = a[j] => result[i] = result[j]

\* C2 witness: a result for an input with a missing entry, a repeated value
\* and two bins in use.
C2_Witness ==
    /\ Exact /\ Returned /\ ~NoMissing
    /\ \E i, j \in DOMAIN a : i # j /\ a[i] = a[j] /\ ~IsNaN(a[i])
    /\ Cardinality(Labels(result)) >= 2

\* C3: when nbins exceeds the size M of the value range, bin_sequence ends
\* with a ParameterError: not with a reference to a best partition that was
\* never assigned, and not with a result.
C3_TooManyBinsRejected ==
    (Exact /\ Ended /\ Present(a) # {} /\ nbins > RangeSize) =>
        /\ pc = "error"
        /\ IsParameterError(err)
        /\ err # "UnboundLocalError"
        /\ result = NoResult

\* C4: bin_sequence(a, 1) returns, for every non-empty a without missing
\* values, a sequence of the length of a whose entries are all 0.
C4_OneBinAllZeros ==
    (Exact /\ Ended /\ NoMissing /\ nbins = 1) =>
        /\ Returned
        /\ result = Zeros(Len(a))

\* C5: every result bin_sequence_approximately returns for an input without missing
\* values and nbins in 2, 4, 8, ... has the length of the input, uses at most
\* nbins labels, gives equal values equal labels, and no entry with another
\* label lies in value between two entries that share a label.
C5_ApproximateLabeling ==
    (Approx /\ Returned /\ NoMissing /\ PowerOfTwoFrom2(nbins)) =>
        /\ Len(result) = Len(a)
        /\ Cardinality(Labels(result)) <= nbins
        /\ \A i, j \in DOMAIN a : a[i] = a[j] => result[i] = result[j]
        /\ \A i, j, k \in DOMAIN a :
            (result[i] = result[j] /\ a[i] <= a[k] /\ a[k] <= a[j])
                => result[k] = result[i]

\* C5 witness: a result with three labels, one of them on two distinct values,
\* after a recursive call returned.
C5_Witness ==
    /\ Approx /\ Returned /\ NoMissing /\ nbins = 4
    /\ Cardinality(Labels(result)) >= 3
    /\ \E i, j \in DOMAIN a : a[i] # a[j] /\ result[i] = result[j]

\* C6: when the number of distinct values of a equals nbins, bin_sequence
\* returns a labeling in which two positions share a bin index exactly when
\* they share the input value.
C6_OneBinPerValue ==
    (Exact /\ Ended /\ NoMissing /\ Cardinality(Present(a)) = nbins) =>
        /\ Returned
        /\ \A i, j \in DOMAIN a : (result[i] = result[j]) <=> (a[i] = a[j])

\* C7: bin_sequence_approximately rejects every nbins outside 2, 4, 8, ...
\* with a ParameterError at the top of the call: nothing is split and no
\* result is produced.
C7_OnlyPowersOfTwoFrom2 ==
    (Approx /\ pc # "start" /\ ~PowerOfTwoFrom2(nbins)) =>
        /\ pc = "error"
        /\ IsParameterError(err)
        /\ stack = <<>>
        /\ result = NoResult

\* C8: the result of bin_sequence is the labeling induced by the partition
\* whose cut tuple is lexicographically smallest among the partitions of
\* maximal entropy: of equally scored candidates the first enumerated wins.
C8_FirstMaximumWins ==
    (Exact /\ Returned) =>
        \E S \in CutSets(RangeSize, nbins) :
            /\ result = LabelByCuts(a, AMin, S)
            /\ \A T \in CutSets(RangeSize, nbins) :
                LET kS == EntropyKey(LabelByCuts(a, AMin, S))
                    kT == EntropyKey(LabelByCuts(a, AMin, T))
                IN  /\ kS <= kT
                    /\ (kT = kS /\ T # S) => LexLess(S, T)

\* C8 witness: the scenario a = [0,0,0,0,1,1,2,2,2,2], nbins = 2, where the cuts
\* {0}|{1,2} and {0,1}|{2} score equally and the lower cut was applied.
C8_Witness ==
    /\ Exact /\ Returned /\ a = Scenario /\ nbins = 2
    /\ EntropyKey(LabelByCuts(a, AMin, {1})) = EntropyKey(LabelByCuts(a, AMin, {2}))
    /\ result = <<0, 0, 0, 0, 1, 1, 1, 1, 1, 1>>

\* C9: for every non-empty a without missing values and nbins in 2, 4, 8, ...
\* bin_sequence_approximately ends with a result and never with an error, and
\* its recursion is never deeper than log2(nbins).
C9_ApproximateTerminatesNormally ==
    (Approx /\ NoMissing /\ PowerOfTwoFrom2(nbins)) =>
        /\ Len(stack) <= Log2(nbins)
        /\ pc # "error"

\* C10: for a value range of length M the generator yields C(M-1, nbins-1)
\* pairwise distinct candidates when nbins <= M and nothing when nbins > M; each
\* candidate has nbins non-empty groups whose concatenation is the range.
C10_GeneratorCorrect ==
    (Exact /\ pc # "start" /\ Present(a) # {}) =>
        /\ Len(bins) = Binomial(RangeSize - 1, nbins - 1)
        /\ nbins > RangeSize => bins = <<>>
        /\ nbins = 1 => bins = << <<RangeTuple(AMin, AMax)>> >>
        /\ \A k, l \in DOMAIN bins : k # l => bins[k] # bins[l]
        /\ \A k \in DOMAIN bins :
            /\ Len(bins[k]) = nbins
            /\ \A g \in DOMAIN bins[k] : bins[k][g] # <<>>
            /\ Flatten(bins[k]) = RangeTuple(AMin, AMax)

\* C10 witness: the generator yielded three or more candidates of two or more
\* groups each, for a range longer than nbins.
C10_Witness ==
    /\ Exact /\ pc = "loop" /\ nbins >= 2 /\ nbins < RangeSize
    /\ Len(bins) >= 3

==========================================================================
